---- MODULE Spec2Model ----
(***************************************************************************)
(* Forecast engine of the Jira Time Machine dashboard                      *)
(* (src/src/frontend/simulationLogic.js, calculateSimulation), the         *)
(* dashboard that calls it (src/src/frontend/index.jsx) and the resolvers  *)
(* behind the dashboard (src/src/resolvers/index.js).                      *)
(*                                                                         *)
(* Representation choices:                                                 *)
(*  - a JavaScript string is a sequence of one-character strings, so that  *)
(*    parsing and formatting of dates are computed and not assumed;        *)
(*  - a time value (Date.getTime()) is counted in minutes since            *)
(*    1970-01-01T00:00Z instead of milliseconds: every instant of the      *)
(*    model has zero seconds and milliseconds;                             *)
(*  - fractional day counts are kept exactly, in hundredths of a day       *)
(*    (drivers and seeds are whole percents); IEEE-754 rounding of the     *)
(*    products is not modelled;                                            *)
(*  - the host time zone is a fixed offset from UTC (no DST transition);   *)
(*  - JavaScript null is JSNull for objects and the empty sequence for     *)
(*    strings; the value of `a && b` that may be null, true or false is    *)
(*    one of the strings "null", "true", "false".                          *)
(***************************************************************************)
EXTENDS Integers, Sequences, FiniteSets, TLC

VARIABLES
    \* the engine: the clock and the zone of the host, the arguments and the
    \* outcome of the last invocation of calculateSimulation
    now, tzOffset, args, out,
    \* invocations in progress: the objects they can reach and their frames
    heap, frames,
    \* the dashboard: the context Forge hands to the component, the values
    \* of its useState hooks, and the calls of invoke('fetchSimulationData')
    \* in the order they were issued
    productContext, dashboard, calls,
    \* the issue-count effect of the older page (src/unnamed/part_000): the
    \* page (project key of the platform context, mounted or not), the runs
    \* of the effect with their isCancelled flags, and the two counts
    page, effects, counts,
    \* the resolvers (src/src/resolvers/index.js): the last invocation with
    \* its result, the Forge storage, and for each project the record of the
    \* last save that succeeded
    resolverCall, storage, lastSaved

engineVars == <<now, tzOffset, args, out>>

callVars == <<heap, frames>>

dashVars == <<productContext, dashboard, calls>>

effectVars == <<page, effects, counts>>

resolverVars == <<resolverCall, storage, lastSaved>>

vars == <<now, tzOffset, args, out, heap, frames, productContext, dashboard, calls, page, effects, counts, resolverCall, storage, lastSaved>>

-----------------------------------------------------------------------------
(* Bounds of the model *)

\* number of clock ticks explored after the initial instant
MaxTicks == 7

\* number of calls of refreshSimulationData that start a fetch
MaxCalls == 3

\* number of runs of the issue-count effect that start a request
MaxEffects == 3

-----------------------------------------------------------------------------
(* JavaScript values *)

JSNull == [null |-> TRUE]

NoString == <<>>

MinutesPerDay == 1440

CeilDiv(a, b) == -((-a) \div b)

\* Math.round(a / b) for b > 0: nearest integer, halves towards +infinity
RoundDiv(a, b) == (2 * a + b) \div (2 * b)

Max(a, b) == IF a >= b THEN a ELSE b

-----------------------------------------------------------------------------
(* The Date built-ins used by the engine *)

DigitChars == <<"0", "1", "2", "3", "4", "5", "6", "7", "8", "9">>

DigitVals == [c \in {DigitChars[i] : i \in 1..10} |->
                 (CHOOSE i \in 1..10 : DigitChars[i] = c) - 1]

IsDigit(c) == c \in DOMAIN DigitVals

DigitVal(c) == DigitVals[c]

\* value of the decimal digits s[from..to]
RECURSIVE NumVal(_, _, _)
NumVal(s, from, to) ==
    IF to < from THEN 0
    ELSE 10 * NumVal(s, from, to - 1) + DigitVal(s[to])

AllDigits(s, from, to) == \A i \in from..to : IsDigit(s[i])

\* n written with exactly w decimal digits
RECURSIVE Pad(_, _)
Pad(n, w) ==
    IF w = 0 THEN <<>>
    ELSE Append(Pad(n \div 10, w - 1), DigitChars[(n % 10) + 1])

IsLeap(y) == (y % 4 = 0 /\ y % 100 # 0) \/ y % 400 = 0

DaysInMonth(y, m) ==
    IF m = 2 THEN (IF IsLeap(y) THEN 29 ELSE 28)
    ELSE IF m \in {4, 6, 9, 11} THEN 30 ELSE 31

\* day number (days since 1970-01-01) of the proleptic Gregorian date y-m-d
DaysFromCivil(y, m, d) ==
    LET yy  == IF m <= 2 THEN y - 1 ELSE y
        era == yy \div 400
        yoe == yy - era * 400
        mp  == IF m > 2 THEN m - 3 ELSE m + 9
        doy == (153 * mp + 2) \div 5 + d - 1
        doe == yoe * 365 + yoe \div 4 - yoe \div 100 + doy
    IN  era * 146097 + doe - 719468

\* the Gregorian date <<y, m, d>> of a day number
CivilFromDays(z) ==
    LET zz  == z + 719468
        era == zz \div 146097
        doe == zz - era * 146097
        yoe == (doe - doe \div 1460 + doe \div 36524 - doe \div 146096) \div 365
        doy == doe - (365 * yoe + yoe \div 4 - yoe \div 100)
        mp  == (5 * doy + 2) \div 153
        d   == doy - (153 * mp + 2) \div 5 + 1
        m   == IF mp < 10 THEN mp + 3 ELSE mp - 9
        y   == yoe + era * 400 + (IF m <= 2 THEN 1 ELSE 0)
    IN  <<y, m, d>>

\* 0 = Sunday ... 6 = Saturday; day number 0 was a Thursday
Weekday(dayNumber) == (dayNumber + 4) % 7

\* UTC day number of a time value
UTCDay(t) == t \div MinutesPerDay

\* day number of a time value on the host's local calendar
LocalDay(t, tz) == (t + tz) \div MinutesPerDay

\* Date.prototype.getDay(): weekday of the local calendar date
getDay(t, tz) == Weekday(LocalDay(t, tz))

\* Date.prototype.setUTCHours(0, 0, 0, 0)
setUTCHours0(t) == UTCDay(t) * MinutesPerDay

\* date.setDate(date.getDate() + 1): next local calendar day, same local time
setDatePlus1(t, tz) ==
    (LocalDay(t, tz) + 1) * MinutesPerDay + ((t + tz) % MinutesPerDay) - tz

\* new Date(dateStr) for the date-time form YYYY-MM-DDTHH:MM:SSZ;
\* every other string gives an Invalid Date
IsISODateTime(s) ==
    /\ Len(s) = 20
    /\ AllDigits(s, 1, 4) /\ s[5] = "-" /\ AllDigits(s, 6, 7) /\ s[8] = "-"
    /\ AllDigits(s, 9, 10) /\ s[11] = "T"
    /\ AllDigits(s, 12, 13) /\ s[14] = ":" /\ AllDigits(s, 15, 16)
    /\ s[17] = ":" /\ AllDigits(s, 18, 19) /\ s[20] = "Z"
    /\ LET month == NumVal(s, 6, 7)
           day == NumVal(s, 9, 10)
       IN  /\ 1 <= month /\ month <= 12
           /\ 1 <= day /\ day <= DaysInMonth(NumVal(s, 1, 4), month)
    /\ NumVal(s, 12, 13) <= 23
    /\ NumVal(s, 15, 16) <= 59
    /\ NumVal(s, 18, 19) <= 59

NewDate(s) ==
    IF IsISODateTime(s)
    THEN [valid |-> TRUE,
          t |-> DaysFromCivil(NumVal(s, 1, 4), NumVal(s, 6, 7), NumVal(s, 9, 10))
                    * MinutesPerDay
                + NumVal(s, 12, 13) * 60 + NumVal(s, 15, 16)]
    ELSE [valid |-> FALSE, t |-> 0]

\* date.toISOString().slice(0, 10) of a valid date
formatDate(t) ==
    LET c == CivilFromDays(UTCDay(t))
    IN  Pad(c[1], 4) \o <<"-">> \o Pad(c[2], 2) \o <<"-">> \o Pad(c[3], 2)

-----------------------------------------------------------------------------
(* calculateSimulation, stage by stage *)

\* slip: the load speeds the work up
VelocityModifier100_Minus(load) == 100 - load

\* line 12, in hundredths: 1 + load / 100
VelocityModifier100(load) == 100 + load

\* slip: Math.floor for Math.ceil
ComplexityDays_Floor(complexity) == (complexity * 5) \div 100

\* line 15: Math.ceil((complexity / 100) * 5)
ComplexityDays(complexity) == CeilDiv(complexity * 5, 100)

\* slip: <= for <
IsWorkerSick_OrEqual(randomSeed100, absenceRisk) == randomSeed100 <= absenceRisk

\* line 18: (randomSeed * 100) < absenceRisk, the seed given in hundredths
IsWorkerSick(randomSeed100, absenceRisk) == randomSeed100 < absenceRisk

\* Array.prototype.includes
Includes(seq, x) == \E i \in 1..Len(seq) : seq[i] = x

\* slip: the action of the directive is not looked at
IsShocked_AnyAction(task, tangibleShock) ==
    /\ tangibleShock # JSNull
    /\ Len(tangibleShock.memberIds) > 0
    /\ task.assignee # JSNull
    /\ Includes(tangibleShock.memberIds, task.assignee.accountId)

\* lines 22-32: the shock applies to an assigned task whose assignee is listed
IsShocked(task, tangibleShock) ==
    /\ tangibleShock # JSNull
    /\ Len(tangibleShock.memberIds) > 0
    /\ task.assignee # JSNull
    /\ Includes(tangibleShock.memberIds, task.assignee.accountId)
    /\ tangibleShock.action = "sick3"

\* lines 35-39: null for a missing date, otherwise the Date parsed as UTC
parseDate(d) ==
    IF d = NoString THEN JSNull
    ELSE NewDate(IF Includes(d, "T") THEN d
                 ELSE d \o <<"T", "0", "0", ":", "0", "0", ":", "0", "0", "Z">>)

\* slip: <= for <
IsOverdue_OnOrBefore(originalDueDate, today) ==
    IF originalDueDate = JSNull THEN "null"
    ELSE IF originalDueDate.t <= today THEN "true" ELSE "false"

\* line 50: originalDueDate && originalDueDate < today
IsOverdue(originalDueDate, today) ==
    IF originalDueDate = JSNull THEN "null"
    ELSE IF originalDueDate.t < today THEN "true" ELSE "false"

\* slip: the difference is not clamped at 0
RemainingDays_NoClamp(originalDueDate, today) ==
    IF originalDueDate # JSNull
    THEN RoundDiv(originalDueDate.t - today, MinutesPerDay)
    ELSE 0

\* lines 53-55
RemainingDays(originalDueDate, today) ==
    IF originalDueDate # JSNull
    THEN Max(0, RoundDiv(originalDueDate.t - today, MinutesPerDay))
    ELSE 0

\* lines 61-71: the loop of addBusinessDays, from the copy of startDate
RECURSIVE BusinessDayLoop(_, _, _, _)
BusinessDayLoop(date, addedDays, daysToAdd, tz) ==
    IF addedDays < daysToAdd
    THEN LET next == setDatePlus1(date, tz)
             day == getDay(next, tz)
         IN  BusinessDayLoop(next,
                             IF day # 0 /\ day # 6
                             THEN addedDays + 1 ELSE addedDays,
                             daysToAdd, tz)
    ELSE date

\* slip: a do-while loop, whose body runs at least once
addBusinessDays_DoWhile(startDate, daysToAdd, tz) ==
    BusinessDayLoop(startDate, 0, Max(1, daysToAdd), tz)

addBusinessDays(startDate, daysToAdd, tz) ==
    BusinessDayLoop(startDate, 0, daysToAdd, tz)

\* slip: the walk starts from the due date when there is one
SimulatedDateObj_FromDueDate(today, originalDueDate, daysToAdd, tz) ==
    addBusinessDays(IF originalDueDate # JSNull THEN originalDueDate.t
                    ELSE today,
                    daysToAdd, tz)

\* line 74: the walk starts from today
SimulatedDateObj(today, originalDueDate, daysToAdd, tz) ==
    addBusinessDays(today, daysToAdd, tz)

\* slip: Math.round for Math.ceil
RiskDays_Round(simulatedDays100, remainingDays) ==
    RoundDiv(simulatedDays100 - 100 * remainingDays, 100)

\* line 77, from hundredths of a day
RiskDays(simulatedDays100, remainingDays) ==
    CeilDiv(simulatedDays100 - 100 * remainingDays, 100)

\* slip: the risk days are reported also when there is a due date
DelayDays_RiskOnly(originalDueDate, simulatedDateObj, riskDays) == riskDays

\* lines 80-82
DelayDays(originalDueDate, simulatedDateObj, riskDays) ==
    IF originalDueDate # JSNull
    THEN Max(0, CeilDiv(simulatedDateObj - originalDueDate.t, MinutesPerDay))
    ELSE riskDays

\* slip: > for >= at both thresholds
RiskLevel_Strict(riskDays) ==
    IF riskDays > 15 THEN "High"
    ELSE IF riskDays > 5 THEN "Medium" ELSE "Low"

\* lines 86-91
RiskLevel(riskDays) ==
    IF riskDays >= 15 THEN "High"
    ELSE IF riskDays >= 5 THEN "Medium" ELSE "Low"

\* line 41-42: new Date() reads the clock, then is cut to UTC midnight
Today(clock) == setUTCHours0(clock)

\* The outcome of one invocation: clock is what new Date() reads, tz the host
\* zone, randomSeed100 the seed after the default parameter was evaluated.
\* An unparsable due date is an Invalid Date (time value NaN): isOverdue is
\* false, remainingDays, simulatedDays, riskDays and delayDays are NaN, the
\* loop of addBusinessDays does not run, and formatDate(originalDueDate) at
\* line 101 throws RangeError from toISOString.
calculateSimulation(task, load, complexity, absenceRisk, randomSeed100, tangibleShock, clock, tz) ==
    LET velocityModifier100 == VelocityModifier100(load)
        complexityDays == ComplexityDays(complexity)
        isWorkerSick == IsWorkerSick(randomSeed100, absenceRisk)
        sicknessDays == IF isWorkerSick THEN 3 ELSE 0
        isShocked == IsShocked(task, tangibleShock)
        shockDays == IF isShocked THEN 3 ELSE 0
        today == Today(clock)
        parsed == parseDate(task.duedate)
    IN  IF parsed # JSNull /\ ~parsed.valid
        THEN [kind |-> "throw", error |-> "RangeError"]
        ELSE
        LET originalDueDate ==
                IF parsed = JSNull THEN JSNull
                ELSE [valid |-> TRUE, t |-> setUTCHours0(parsed.t)]
            isOverdue == IsOverdue(originalDueDate, today)
            remainingDays == RemainingDays(originalDueDate, today)
            simulatedDays100 ==
                remainingDays * velocityModifier100
                + 100 * (complexityDays + sicknessDays + shockDays)
            daysToAdd == CeilDiv(simulatedDays100, 100)
            simulatedDateObj ==
                SimulatedDateObj(today, originalDueDate, daysToAdd, tz)
            riskDays == RiskDays(simulatedDays100, remainingDays)
            delayDays == DelayDays(originalDueDate, simulatedDateObj, riskDays)
        IN  [kind |-> "return",
             value |-> [simulatedDate |-> formatDate(simulatedDateObj),
                        delayDays |-> delayDays,
                        riskDays |-> riskDays,
                        isSick |-> isWorkerSick,
                        isShocked |-> isShocked,
                        riskLevel |-> RiskLevel(riskDays),
                        isOverdue |-> isOverdue,
                        originalDate |->
                            IF originalDueDate # JSNull
                            THEN formatDate(originalDueDate.t) ELSE NoString],
             \* values of the local constants of this invocation
             local |-> [clock |-> clock,
                        today |-> today,
                        remainingDays |-> remainingDays,
                        complexityDays |-> complexityDays,
                        sicknessDays |-> sicknessDays,
                        shockDays |-> shockDays,
                        simulatedDays100 |-> simulatedDays100,
                        daysToAdd |-> daysToAdd,
                        simulatedDateObj |-> simulatedDateObj]]

-----------------------------------------------------------------------------
(* The inputs explored *)

\* the instant the tests set the clock to: 2025-12-30T00:00:00.000Z, a Tuesday
StartNow == 20452 * MinutesPerDay

\* between two invocations the clock advances by 18 hours, so that some
\* successive invocations fall on the same UTC date and some do not
TickMinutes == 18 * 60

\* offsets of local time from UTC, in minutes: New York (UTC-5) and UTC.
\* West of UTC the local date at UTC midnight is the day before; east of it
\* (by less than a day) it is the UTC date, as for offset 0.
TZOffsets == {-300, 0}

\* task.duedate: none, the tests' due date, a date-time, an unparsable text
DueDates ==
    { NoString,
      <<"2", "0", "2", "5", "-", "1", "2", "-", "3", "1">>,
      <<"2", "0", "2", "6", "-", "0", "1", "-", "0", "3",
        "T", "1", "5", ":", "3", "0", ":", "0", "0", "Z">>,
      <<"T", "B", "D">> }

Assignees == { JSNull, [accountId |-> "user-123"] }

Tasks == [key : {"KAN-1"}, duedate : DueDates, assignee : Assignees]

\* the sliders give 0..100; the engine is also called with a load and a
\* complexity outside the range
Loads == {-150, 0, 35}

Complexities == {0, 50, 140}

\* never sick, sick for the samples below 0.5, always sick
AbsenceRisks == {0, 50, 100}

\* values of Math.random(), in hundredths
RandomSamples100 == {0, 50, 99}

\* the randomSeed argument: omitted, or a number in [0, 1) in hundredths
RandomSeeds ==
    { [given |-> FALSE, v |-> 0],
      [given |-> TRUE, v |-> 50] }

TangibleShocks ==
    { JSNull,
      [memberIds |-> <<"user-123">>, action |-> "sick3"] }

InRange(x) == 0 <= x /\ x <= 100

-----------------------------------------------------------------------------
(* The state machine: the clock of the host and successive invocations *)

NoCall == [kind |-> "none"]

\* the arguments of the tests' base case (simulation.test.js line 79)
BaseArgs ==
    [task |-> [key |-> "KAN-1",
               duedate |-> <<"2", "0", "2", "5", "-", "1", "2", "-", "3", "1">>,
               assignee |-> JSNull],
     load |-> 0, complexity |-> 0, absenceRisk |-> 0,
     randomSeed |-> [given |-> TRUE, v |-> 50],
     tangibleShock |-> JSNull]

\* The objects invocations are passed: two items of the backlog and one
\* shock directive (simulation.test.js lines 64-67, 105-106).
TaskObjects ==
    <<[key |-> "KAN-1",
       duedate |-> <<"2", "0", "2", "5", "-", "1", "2", "-", "3", "1">>,
       assignee |-> JSNull],
      [key |-> "KAN-2",
       duedate |-> <<"2", "0", "2", "6", "-", "0", "1", "-", "0", "3", "T",
                     "1", "5", ":", "3", "0", ":", "0", "0", "Z">>,
       assignee |-> [accountId |-> "user-123"]]>>

ShockObjects == << [memberIds |-> <<"user-123">>, action |-> "sick3"] >>

\* invocations that can be in progress at once
FrameIds == {1, 2}

\* the Date objects an invocation creates
DateNames == {"today", "originalDueDate", "simulatedDateObj"}

\* a Date object that was not created yet
NoDate == [valid |-> FALSE, t |-> 0]

IdleFrame == [pc |-> "idle"]

\* no invocation in progress, no Date object created
CallsInit ==
    /\ heap = [task |-> TaskObjects,
               shock |-> ShockObjects,
               date |-> [o \in DateNames \X FrameIds |-> NoDate]]
    /\ frames = [f \in FrameIds |-> IdleFrame]

\* index.jsx lines 53-69: the initial values of the useState hooks; the
\* product context is undefined until Forge provides it (lines 40-43)
DashInit ==
    /\ productContext = JSNull
    /\ dashboard = [status |-> "idle",
                    hasFetchedSimulationData |-> FALSE,
                    hasPermissionError |-> FALSE,
                    simulationTasks |-> <<>>,
                    totalIssueCount |-> 0,
                    openIssueCount |-> 0,
                    overdueCount |-> 0]
    /\ calls = <<>>

\* part_000 lines 30-41: the page is mounted without a project key, no run
\* of the effect has started a request, the counts are 0; from is the
\* project key of the request the counts were taken from
EffectInit ==
    /\ page = [projectKey |-> "", mounted |-> TRUE]
    /\ effects = <<>>
    /\ counts = [totalIssueCount |-> 0, openIssueCount |-> 0, from |-> ""]

\* projects whose analysis can be stored
ProjectKeys == {"KAN", "OPS"}

\* slip: one storage key for every project
StorageKeyOf_Shared(projectKey) == <<"analysis_", "">>

\* resolvers/index.js lines 15, 33: `analysis_${projectKey}`
StorageKeyOf(projectKey) == <<"analysis_", projectKey>>

\* no resolver was invoked, the storage is empty
ResolverInit ==
    /\ resolverCall = [name |-> "none"]
    /\ storage = [k \in {StorageKeyOf(pk) : pk \in ProjectKeys} |-> JSNull]
    /\ lastSaved = [pk \in ProjectKeys |-> JSNull]

\* the state of everything but the engine when only the engine is explored
AppInit == CallsInit /\ DashInit /\ EffectInit /\ ResolverInit

appVars == <<heap, frames, productContext, dashboard, calls, page, effects, counts, resolverCall, storage, lastSaved>>

\* the state of the engine when another part is explored
EngineInit ==
    /\ now = StartNow
    /\ tzOffset = 0
    /\ args = BaseArgs
    /\ out = NoCall

Init ==
    /\ now = StartNow
    /\ tzOffset \in TZOffsets
    /\ args = BaseArgs
    /\ out = NoCall
    /\ AppInit

\* slip: the sample is drawn even when a seed is passed
DefaultSeed_AlwaysRandom(randomSeed) == RandomSamples100

\* line 10: randomSeed = Math.random() when the argument is omitted
DefaultSeed(randomSeed) ==
    IF randomSeed.given THEN {randomSeed.v} ELSE RandomSamples100

Outcomes(a, clock, tz) ==
    { calculateSimulation(a.task, a.load, a.complexity, a.absenceRisk, r,
                          a.tangibleShock, clock, tz) :
        r \in DefaultSeed(a.randomSeed) }

\* one invocation of calculateSimulation with arguments a, after the clock
\* of the host has advanced by elapsed minutes
Invoke(a, elapsed) ==
    /\ now' = now + elapsed
    /\ args' = a
    /\ out' \in Outcomes(a, now', tzOffset)
    /\ UNCHANGED tzOffset
    /\ UNCHANGED appVars

\* Successive invocations differ in one argument, which reaches every
\* combination of arguments.
InvokeTask == \E t \in Tasks : Invoke([args EXCEPT !.task = t], 0)

InvokeLoad == \E v \in Loads : Invoke([args EXCEPT !.load = v], 0)

InvokeComplexity ==
    \E v \in Complexities : Invoke([args EXCEPT !.complexity = v], 0)

InvokeAbsenceRisk ==
    \E v \in AbsenceRisks : Invoke([args EXCEPT !.absenceRisk = v], 0)

InvokeSeed == \E v \in RandomSeeds : Invoke([args EXCEPT !.randomSeed = v], 0)

InvokeShock ==
    \E v \in TangibleShocks : Invoke([args EXCEPT !.tangibleShock = v], 0)

\* the same arguments again, at once or later (a re-render of the dashboard)
InvokeAgain ==
    \E elapsed \in {0, TickMinutes} :
        /\ out.kind # "none"
        /\ now + elapsed <= StartNow + MaxTicks * TickMinutes
        /\ Invoke(args, elapsed)

Next ==
    \/ InvokeTask
    \/ InvokeLoad
    \/ InvokeComplexity
    \/ InvokeAbsenceRisk
    \/ InvokeSeed
    \/ InvokeShock
    \/ InvokeAgain

Spec == Init /\ [][Next]_vars

TypeOK ==
    /\ now \in StartNow..(StartNow + MaxTicks * TickMinutes)
    /\ tzOffset \in TZOffsets
    /\ args.task \in Tasks
    /\ out.kind \in {"none", "return", "throw"}

-----------------------------------------------------------------------------
(* The shock directive, explored over more directives and assignees *)

ShockAssignees ==
    { JSNull, [accountId |-> "user-123"], [accountId |-> "user-456"] }

ShockDirectives ==
    { JSNull,
      [memberIds |-> <<>>, action |-> "sick3"],
      [memberIds |-> <<"user-123">>, action |-> "sick3"],
      [memberIds |-> <<"user-456">>, action |-> "sick3"],
      [memberIds |-> <<"user-456", "user-123">>, action |-> "sick3"],
      [memberIds |-> <<"user-123">>, action |-> "overtime"] }

InvokeAssignee ==
    \E v \in ShockAssignees : Invoke([args EXCEPT !.task.assignee = v], 0)

InvokeDirective ==
    \E v \in ShockDirectives : Invoke([args EXCEPT !.tangibleShock = v], 0)

NextShock ==
    \/ InvokeAssignee
    \/ InvokeDirective
    \/ InvokeAbsenceRisk
    \/ InvokeSeed
    \/ InvokeAgain

SpecShock == Init /\ [][NextShock]_vars

-----------------------------------------------------------------------------
(* The older variant of calculateSimulation (src/unnamed/part_001), which
   anchors the simulated date at the due date unless the item is overdue,
   invoked side by side with the variant of simulationLogic.js *)

\* date.setHours(0, 0, 0, 0): midnight of the local calendar day
setHours0(t, tz) == LocalDay(t, tz) * MinutesPerDay - tz

\* date.setDate(date.getDate() + n): n local calendar days on, same local time
setDatePlus(t, n, tz) ==
    (LocalDay(t, tz) + n) * MinutesPerDay + ((t + tz) % MinutesPerDay) - tz

\* new Date(dateStr): the date-only form YYYY-MM-DD is UTC midnight of the day
NewDateOrDateOnly(s) ==
    IF Len(s) = 10
    THEN NewDate(s \o <<"T", "0", "0", ":", "0", "0", ":", "0", "0", "Z">>)
    ELSE NewDate(s)

\* part_001 line 34
BaselineDate(isOverdue, originalDueDate, today) ==
    IF isOverdue = "true" THEN today
    ELSE IF originalDueDate # JSNull THEN originalDueDate.t ELSE today

\* part_001 lines 37-39
RemainingDaysFromBaseline(originalDueDate, baselineDate) ==
    IF originalDueDate # JSNull
    THEN Max(0, CeilDiv(originalDueDate.t - baselineDate, MinutesPerDay))
    ELSE 0

\* An unparsable due date is an Invalid Date: it is not overdue, so it is the
\* baseline, and formatDate(simulatedDateObj) throws RangeError.
calculateSimulation_part_001(task, load, complexity, absenceRisk, randomSeed100, clock, tz) ==
    LET velocityModifier100 == VelocityModifier100(load)
        complexityDays == ComplexityDays(complexity)
        isWorkerSick == IsWorkerSick(randomSeed100, absenceRisk)
        sicknessDays == IF isWorkerSick THEN 3 ELSE 0
        today == setHours0(clock, tz)
        parsed == IF task.duedate = NoString THEN JSNull
                  ELSE NewDateOrDateOnly(task.duedate)
    IN  IF parsed # JSNull /\ ~parsed.valid
        THEN [kind |-> "throw", error |-> "RangeError"]
        ELSE
        LET originalDueDate ==
                IF parsed = JSNull THEN JSNull
                ELSE [valid |-> TRUE, t |-> setHours0(parsed.t, tz)]
            isOverdue == IsOverdue(originalDueDate, today)
            baselineDate == BaselineDate(isOverdue, originalDueDate, today)
            remainingDays ==
                RemainingDaysFromBaseline(originalDueDate, baselineDate)
            simulatedDays100 ==
                remainingDays * velocityModifier100
                + 100 * (complexityDays + sicknessDays)
            simulatedDateObj ==
                setDatePlus(baselineDate, CeilDiv(simulatedDays100, 100), tz)
            riskDays == RiskDays(simulatedDays100, remainingDays)
            delayDays == DelayDays(originalDueDate, simulatedDateObj, riskDays)
        IN  [kind |-> "return",
             value |-> [simulatedDate |-> formatDate(simulatedDateObj),
                        delayDays |-> delayDays,
                        riskDays |-> riskDays,
                        isSick |-> isWorkerSick,
                        riskLevel |-> RiskLevel(riskDays),
                        isOverdue |-> isOverdue,
                        originalDate |->
                            IF originalDueDate # JSNull
                            THEN formatDate(originalDueDate.t) ELSE NoString],
             local |-> [clock |-> clock,
                        today |-> today,
                        baselineDate |-> baselineDate,
                        remainingDays |-> remainingDays,
                        simulatedDateObj |-> simulatedDateObj]]

\* hosts west of, at and east of UTC: New York (EST), UTC, Helsinki (EET)
VariantTZOffsets == {-300, 0, 120}

InitVariants ==
    /\ now = StartNow
    /\ tzOffset \in VariantTZOffsets
    /\ args = BaseArgs
    /\ out = NoCall
    /\ AppInit

\* both variants invoked with the same arguments at the same instant
InvokeBoth(a, elapsed) ==
    /\ now' = now + elapsed
    /\ args' = a
    /\ \E r \in DefaultSeed(a.randomSeed) :
          out' = [kind |-> "both",
                  current |-> calculateSimulation(a.task, a.load,
                                  a.complexity, a.absenceRisk, r,
                                  a.tangibleShock, now', tzOffset),
                  part_001 |-> calculateSimulation_part_001(a.task, a.load,
                                  a.complexity, a.absenceRisk, r,
                                  now', tzOffset)]
    /\ UNCHANGED tzOffset
    /\ UNCHANGED appVars

CompareDueDate ==
    \E d \in DueDates : InvokeBoth([args EXCEPT !.task.duedate = d], 0)

CompareComplexity ==
    \E v \in Complexities : InvokeBoth([args EXCEPT !.complexity = v], 0)

CompareAbsenceRisk ==
    \E v \in AbsenceRisks : InvokeBoth([args EXCEPT !.absenceRisk = v], 0)

CompareAgain ==
    \E elapsed \in {0, TickMinutes} :
        /\ out.kind # "none"
        /\ now + elapsed <= StartNow + MaxTicks * TickMinutes
        /\ InvokeBoth(args, elapsed)

NextVariants ==
    \/ CompareDueDate
    \/ CompareComplexity
    \/ CompareAbsenceRisk
    \/ CompareAgain

SpecVariants == InitVariants /\ [][NextVariants]_vars

-----------------------------------------------------------------------------
(* The task list of the dashboard (index.jsx lines 325-336): every render
   calls calculateSimulation for an item with the values of the three
   sliders and a seed derived from the key of the item *)

\* key.split('-')[1]: the piece between the first and the second hyphen,
\* undefined when the key has no hyphen
SplitSecond(key) ==
    LET hyphens == {i \in 1..Len(key) : key[i] = "-"}
    IN  IF hyphens = {} THEN [defined |-> FALSE]
        ELSE LET first == CHOOSE i \in hyphens : \A j \in hyphens : i <= j
                 later == {i \in hyphens : i > first}
                 stop == IF later = {} THEN Len(key) + 1
                         ELSE CHOOSE i \in later : \A j \in later : i <= j
             IN  [defined |-> TRUE, s |-> SubSeq(key, first + 1, stop - 1)]

\* index.jsx line 335: (task.key.split('-')[1] || 0) % 100 / 100, in
\* hundredths; a piece that is not a number gives NaN
SeedOfKey(key) ==
    LET piece == SplitSecond(key)
    IN  IF ~piece.defined THEN 0
        ELSE IF piece.s = <<>> THEN 0
        ELSE IF AllDigits(piece.s, 1, Len(piece.s))
             THEN NumVal(piece.s, 1, Len(piece.s)) % 100
             ELSE "NaN"

\* slip: a fresh sample of Math.random() on every render
UISeeds_MathRandom(key) == RandomSamples100

\* the seeds a render may pass for the item
UISeeds(key) == {SeedOfKey(key)}

\* keys of Jira issues: the key of the project, a hyphen, the issue number
TaskKeys ==
    { <<"K", "A", "N", "-", "1">>,
      <<"K", "A", "N", "-", "5", "0">>,
      <<"K", "A", "N", "-", "9", "9">>,
      <<"K", "A", "N", "-", "2", "5", "0">> }

\* positions of the sliders, which run from 0 to 100
SliderValues == {0, 10, 50, 100}

\* the sliders start at 50, 50 and 10 (index.jsx lines 49-51)
InitRender ==
    /\ now = StartNow
    /\ tzOffset \in TZOffsets
    /\ args = [BaseArgs EXCEPT !.task.key = <<"K", "A", "N", "-", "1">>,
                               !.load = 50, !.complexity = 50,
                               !.absenceRisk = 10,
                               !.randomSeed = [given |-> TRUE, v |-> 1]]
    /\ out = NoCall
    /\ AppInit

\* one render of the item of args a
Render(a, elapsed) ==
    \E seed \in UISeeds(a.task.key) :
        Invoke([a EXCEPT !.randomSeed = [given |-> TRUE, v |-> seed]], elapsed)

setTeamCognitiveLoad ==
    \E v \in SliderValues : Render([args EXCEPT !.load = v], 0)

setSystemComplexity ==
    \E v \in SliderValues : Render([args EXCEPT !.complexity = v], 0)

setAbsenceRisk ==
    \E v \in SliderValues : Render([args EXCEPT !.absenceRisk = v], 0)

\* the next item of simulationTasks.map
RenderItem ==
    \E k \in TaskKeys : Render([args EXCEPT !.task.key = k], 0)

Rerender ==
    \E elapsed \in {0, TickMinutes} :
        /\ out.kind # "none"
        /\ now + elapsed <= StartNow + MaxTicks * TickMinutes
        /\ Render(args, elapsed)

NextRender ==
    \/ setTeamCognitiveLoad
    \/ setSystemComplexity
    \/ setAbsenceRisk
    \/ RenderItem
    \/ Rerender

SpecRender == InitRender /\ [][NextRender]_vars

-----------------------------------------------------------------------------
(* Invocations of calculateSimulation in progress at once: each advances
   through the lines of simulationLogic.js in steps, the steps of different
   invocations interleaved in any order. The task and the shock directive are
   passed by reference, the drivers and the seed by value. *)

\* slip: the Date objects are created once and used by every invocation
DateObject_Shared(f, name) == <<name, 1>>

\* lines 41, 38, 62: new Date(...) creates an object of the invocation
DateObject(f, name) == <<name, f>>

\* the arguments of the invocations explored; tangibleShock 0 is null
CallArgs ==
    [task : DOMAIN TaskObjects, load : {35}, complexity : {50},
     absenceRisk : {0, 100}, randomSeed100 : {50},
     tangibleShock : {0} \cup DOMAIN ShockObjects]

InProgress(f) == frames[f].pc \notin {"idle", "returned"}

\* whether some other invocation is in progress while f takes a step
Overlaps(f) == \E g \in FrameIds \ {f} : InProgress(g)

ShockOf(h, a) == IF a.tangibleShock = 0 THEN JSNull ELSE h.shock[a.tangibleShock]

\* line 10: the call
Call(f) ==
    /\ ~InProgress(f)
    /\ \E a \in CallArgs :
          frames' = [frames EXCEPT ![f] =
                        [pc |-> "line12", a |-> a, overlapped |-> FALSE]]
    /\ UNCHANGED heap
    /\ UNCHANGED <<engineVars, dashVars, effectVars, resolverVars>>

\* lines 12-32: the drivers, the sample and the shock
Line12(f) ==
    /\ frames[f].pc = "line12"
    /\ LET a == frames[f].a
           isWorkerSick == IsWorkerSick(a.randomSeed100, a.absenceRisk)
           isShocked == IsShocked(heap.task[a.task], ShockOf(heap, a))
       IN  frames' = [frames EXCEPT ![f] =
               [pc |-> "line41", a |-> a,
                overlapped |-> frames[f].overlapped \/ Overlaps(f),
                velocityModifier100 |-> VelocityModifier100(a.load),
                complexityDays |-> ComplexityDays(a.complexity),
                isWorkerSick |-> isWorkerSick,
                sicknessDays |-> IF isWorkerSick THEN 3 ELSE 0,
                isShocked |-> isShocked,
                shockDays |-> IF isShocked THEN 3 ELSE 0]]
    /\ UNCHANGED heap
    /\ UNCHANGED <<engineVars, dashVars, effectVars, resolverVars>>

\* lines 41-42: today
Line41(f) ==
    /\ frames[f].pc = "line41"
    /\ heap' = [heap EXCEPT !.date[DateObject(f, "today")] =
                   [valid |-> TRUE, t |-> Today(now)]]
    /\ frames' = [frames EXCEPT
                     ![f].pc = "line44",
                     ![f].overlapped = @ \/ Overlaps(f)]
    /\ UNCHANGED <<engineVars, dashVars, effectVars, resolverVars>>

\* lines 44-47: the due date, when the item has one
Line44(f) ==
    /\ frames[f].pc = "line44"
    /\ LET parsed == parseDate(heap.task[frames[f].a.task].duedate)
       IN  /\ heap' =
                  IF parsed = JSNull THEN heap
                  ELSE [heap EXCEPT !.date[DateObject(f, "originalDueDate")] =
                           [valid |-> parsed.valid,
                            t |-> setUTCHours0(parsed.t)]]
           /\ frames' = [frames EXCEPT ![f] =
                  [pc |-> "line50", hasDueDate |-> parsed # JSNull,
                   overlapped |-> frames[f].overlapped \/ Overlaps(f)]
                      @@ frames[f]]
    /\ UNCHANGED <<engineVars, dashVars, effectVars, resolverVars>>

\* lines 50-58: overdue, remaining and simulated days
Line50(f) ==
    /\ frames[f].pc = "line50"
    /\ LET l == frames[f]
           today == heap.date[DateObject(f, "today")].t
           originalDueDate ==
               IF l.hasDueDate
               THEN heap.date[DateObject(f, "originalDueDate")]
               ELSE JSNull
           remainingDays == RemainingDays(originalDueDate, today)
       IN  frames' = [frames EXCEPT ![f] =
               [pc |-> "line74",
                overlapped |-> l.overlapped \/ Overlaps(f),
                isOverdue |-> IsOverdue(originalDueDate, today),
                remainingDays |-> remainingDays,
                simulatedDays100 |->
                    remainingDays * l.velocityModifier100
                    + 100 * (l.complexityDays + l.sicknessDays + l.shockDays)]
                   @@ l]
    /\ UNCHANGED heap
    /\ UNCHANGED <<engineVars, dashVars, effectVars, resolverVars>>

\* lines 61-74: the walk over the business days
Line74(f) ==
    /\ frames[f].pc = "line74"
    /\ LET l == frames[f]
           originalDueDate ==
               IF l.hasDueDate
               THEN heap.date[DateObject(f, "originalDueDate")]
               ELSE JSNull
       IN  heap' = [heap EXCEPT !.date[DateObject(f, "simulatedDateObj")] =
               [valid |-> TRUE,
                t |-> SimulatedDateObj(heap.date[DateObject(f, "today")].t,
                                       originalDueDate,
                                       CeilDiv(l.simulatedDays100, 100),
                                       tzOffset)]]
    /\ frames' = [frames EXCEPT
                     ![f].pc = "line77",
                     ![f].overlapped = @ \/ Overlaps(f)]
    /\ UNCHANGED <<engineVars, dashVars, effectVars, resolverVars>>

\* lines 77-102: risk and delay days, the level and the result
Line77(f) ==
    /\ frames[f].pc = "line77"
    /\ LET l == frames[f]
           originalDueDate ==
               IF l.hasDueDate
               THEN heap.date[DateObject(f, "originalDueDate")]
               ELSE JSNull
           simulatedDateObj == heap.date[DateObject(f, "simulatedDateObj")].t
           riskDays == RiskDays(l.simulatedDays100, l.remainingDays)
       IN  frames' = [frames EXCEPT ![f] =
               [pc |-> "returned", a |-> l.a,
                overlapped |-> l.overlapped \/ Overlaps(f),
                result |->
                    [simulatedDate |-> formatDate(simulatedDateObj),
                     delayDays |-> DelayDays(originalDueDate,
                                             simulatedDateObj, riskDays),
                     riskDays |-> riskDays,
                     isSick |-> l.isWorkerSick,
                     isShocked |-> l.isShocked,
                     riskLevel |-> RiskLevel(riskDays),
                     isOverdue |-> l.isOverdue,
                     originalDate |->
                         IF originalDueDate # JSNull
                         THEN formatDate(originalDueDate.t) ELSE NoString]]]
    /\ UNCHANGED heap
    /\ UNCHANGED <<engineVars, dashVars, effectVars, resolverVars>>

InitCalls == EngineInit /\ AppInit

NextCalls ==
    \E f \in FrameIds :
        \/ Call(f)
        \/ Line12(f)
        \/ Line41(f)
        \/ Line44(f)
        \/ Line50(f)
        \/ Line74(f)
        \/ Line77(f)

SpecCalls == InitCalls /\ [][NextCalls]_vars

-----------------------------------------------------------------------------
(* The dashboard (index.jsx): refreshSimulationData, called by the effect on
   the product context and by the Refresh Data button; the promise of invoke
   settles in a later step *)

\* contexts Forge provides: none yet, one without a project, one with the
\* project in the extension, one with the project in the platform context
ProductContexts ==
    { JSNull,
      [extensionKey |-> "", platformKey |-> ""],
      [extensionKey |-> "KAN", platformKey |-> ""],
      [extensionKey |-> "", platformKey |-> "KAN"] }

\* lines 80-96: the key of the extension, else of the platform context,
\* else null (here the empty string)
ProjectKeyOf(context) ==
    IF context = JSNull THEN ""
    ELSE IF context.extensionKey # "" THEN context.extensionKey
    ELSE context.platformKey

\* task records the resolver returns: due tomorrow, overdue, without due date
DashTasks ==
    <<[key |-> "KAN-1",
       duedate |-> <<"2", "0", "2", "5", "-", "1", "2", "-", "3", "1">>],
      [key |-> "KAN-2",
       duedate |-> <<"2", "0", "2", "5", "-", "1", "2", "-", "2", "0">>],
      [key |-> "KAN-3", duedate |-> NoString]>>

\* what the promise of invoke can resolve with: arrays of task records, or
\* something that is not an array
InvokeResults ==
    { [isArray |-> TRUE, items |-> <<>>],
      [isArray |-> TRUE, items |-> <<DashTasks[1]>>],
      [isArray |-> TRUE, items |-> DashTasks],
      [isArray |-> FALSE, items |-> <<>>] }

\* the status of the error the promise can reject with; 0 is an error
\* without status
ErrorStatuses == {403, 500, 0}

\* line 123
TasksOf(result) == IF result.isArray THEN result.items ELSE <<>>

\* lines 131-133: the tasks with a due date before local midnight of today
OverdueCountOf(tasks, clock, tz) ==
    Cardinality({i \in 1..Len(tasks) :
        /\ tasks[i].duedate # NoString
        /\ NewDateOrDateOnly(tasks[i].duedate).valid
        /\ NewDateOrDateOnly(tasks[i].duedate).t < setHours0(clock, tz)})

\* lines 76-113: refreshSimulationData up to the await, under context
RefreshSimulationData(context) ==
    IF ProjectKeyOf(context) = ""
    THEN UNCHANGED <<dashboard, calls>>
    ELSE /\ Len(calls) < MaxCalls
         /\ dashboard' = [dashboard EXCEPT !.status = "running"]
         /\ calls' = Append(calls, [projectKey |-> ProjectKeyOf(context),
                                    state |-> "pending"])

\* lines 164-170: the effect runs when the product context changes
SetProductContext ==
    \E context \in ProductContexts \ {productContext} :
        /\ productContext' = context
        /\ IF context = JSNull
           THEN UNCHANGED <<dashboard, calls>>
           ELSE RefreshSimulationData(context)
        /\ UNCHANGED <<engineVars, callVars, effectVars, resolverVars>>

\* lines 453-461: the Refresh Data button
ClickRefresh ==
    /\ RefreshSimulationData(productContext)
    /\ UNCHANGED productContext
    /\ UNCHANGED <<engineVars, callVars, effectVars, resolverVars>>

\* slip: the error flag is not cleared by a successful fetch
AfterResolve_KeepError(d, result, clock, tz) ==
    [d EXCEPT !.simulationTasks = TasksOf(result),
              !.totalIssueCount = Len(TasksOf(result)),
              !.openIssueCount = Len(TasksOf(result)),
              !.overdueCount = OverdueCountOf(TasksOf(result), clock, tz),
              !.hasFetchedSimulationData = TRUE,
              !.status = "complete"]

\* lines 115-138: the useState values after the promise resolved
AfterResolve(d, result, clock, tz) ==
    [d EXCEPT !.simulationTasks = TasksOf(result),
              !.totalIssueCount = Len(TasksOf(result)),
              !.openIssueCount = Len(TasksOf(result)),
              !.overdueCount = OverdueCountOf(TasksOf(result), clock, tz),
              !.hasFetchedSimulationData = TRUE,
              !.hasPermissionError = FALSE,
              !.status = "complete"]

\* slip: the status is left as it is when the promise rejects
AfterReject_NoStatus(d, statusCode) ==
    [d EXCEPT !.simulationTasks = <<>>,
              !.hasFetchedSimulationData = TRUE,
              !.hasPermissionError = IF statusCode = 403 THEN TRUE ELSE @]

\* lines 142-157: the useState values after the promise rejected
AfterReject(d, statusCode) ==
    [d EXCEPT !.simulationTasks = <<>>,
              !.hasFetchedSimulationData = TRUE,
              !.status = "complete",
              !.hasPermissionError = IF statusCode = 403 THEN TRUE ELSE @]

\* the promise of call i resolves
Resolve ==
    \E i \in 1..Len(calls), result \in InvokeResults :
        /\ calls[i].state = "pending"
        /\ calls' = [calls EXCEPT ![i] =
                        [projectKey |-> calls[i].projectKey,
                         state |-> "resolved", result |-> result]]
        /\ dashboard' = AfterResolve(dashboard, result, now, tzOffset)
        /\ UNCHANGED productContext
        /\ UNCHANGED <<engineVars, callVars, effectVars, resolverVars>>

\* the promise of call i rejects
Reject ==
    \E i \in 1..Len(calls), statusCode \in ErrorStatuses :
        /\ calls[i].state = "pending"
        /\ calls' = [calls EXCEPT ![i] =
                        [projectKey |-> calls[i].projectKey,
                         state |-> "rejected", statusCode |-> statusCode]]
        /\ dashboard' = AfterReject(dashboard, statusCode)
        /\ UNCHANGED productContext
        /\ UNCHANGED <<engineVars, callVars, effectVars, resolverVars>>

InitDashboard == EngineInit /\ AppInit

NextDashboard ==
    \/ SetProductContext
    \/ ClickRefresh
    \/ Resolve
    \/ Reject

SpecDashboard == InitDashboard /\ [][NextDashboard]_vars

\* every promise of invoke settles
SpecDashboardLive == SpecDashboard /\ WF_vars(Resolve \/ Reject)

-----------------------------------------------------------------------------
(* The issue-count effect of the older page (src/unnamed/part_000 lines
   48-96): each run of the effect that finds a project key starts a request
   and owns an isCancelled flag, which the cleanup of the run sets *)

\* project keys of the platform context; the empty string is no key
PageProjectKeys == {"", "KAN", "OPS"}

\* bodies of the responses of the search: the status category of each issue
\* and the total, -1 when the body has no number there
SearchBodies ==
    { [isArray |-> TRUE, issues |-> <<"To Do", "In Progress", "Done">>,
       total |-> 3],
      [isArray |-> TRUE, issues |-> <<"To Do", "Done">>, total |-> 120],
      [isArray |-> TRUE, issues |-> <<"Done">>, total |-> -1],
      [isArray |-> FALSE, issues |-> <<>>, total |-> -1] }

\* part_000 lines 72-80
CountsOf(data) ==
    LET issues == IF data.isArray THEN data.issues ELSE <<>>
    IN  [totalIssueCount |-> IF data.total >= 0 THEN data.total
                             ELSE Len(issues),
         openIssueCount |->
             Cardinality({i \in 1..Len(issues) :
                 issues[i] = "To Do" \/ issues[i] = "In Progress"})]

\* lines 93-95: the cleanup of the last run, when that run started a request
\* (a run that returned at line 51 has no cleanup)
Cleanup(previousKey) ==
    IF previousKey # "" /\ Len(effects) > 0
    THEN [effects EXCEPT ![Len(effects)].isCancelled = TRUE]
    ELSE effects

\* the project key changes: cleanup of the last run, then lines 49-91
ChangeProjectKey ==
    \E k \in PageProjectKeys \ {page.projectKey} :
        /\ page.mounted
        /\ page' = [page EXCEPT !.projectKey = k]
        /\ IF k = ""
           THEN effects' = Cleanup(page.projectKey)
           ELSE /\ Len(effects) < MaxEffects
                /\ effects' = Append(Cleanup(page.projectKey),
                                     [projectKey |-> k,
                                      isCancelled |-> FALSE,
                                      state |-> "pending"])
        /\ UNCHANGED counts
        /\ UNCHANGED <<engineVars, callVars, dashVars, resolverVars>>

\* the component is unmounted: cleanup of the last run
Unmount ==
    /\ page.mounted
    /\ page' = [page EXCEPT !.mounted = FALSE]
    /\ effects' = Cleanup(page.projectKey)
    /\ UNCHANGED counts
    /\ UNCHANGED <<engineVars, callVars, dashVars, resolverVars>>

\* line 68: if (isCancelled)
Cancelled(effect) == effect.isCancelled

\* lines 66-83: the response of run i arrives
Respond ==
    \E i \in 1..Len(effects), data \in SearchBodies :
        /\ effects[i].state = "pending"
        /\ effects' = [effects EXCEPT ![i].state = "done"]
        /\ counts' = IF Cancelled(effects[i]) THEN counts
                     ELSE [totalIssueCount |-> CountsOf(data).totalIssueCount,
                           openIssueCount |-> CountsOf(data).openIssueCount,
                           from |-> effects[i].projectKey]
        /\ UNCHANGED page
        /\ UNCHANGED <<engineVars, callVars, dashVars, resolverVars>>

\* lines 84-88: the request of run i fails, which is only logged
Fail ==
    \E i \in 1..Len(effects) :
        /\ effects[i].state = "pending"
        /\ effects' = [effects EXCEPT ![i].state = "failed"]
        /\ UNCHANGED <<page, counts>>
        /\ UNCHANGED <<engineVars, callVars, dashVars, resolverVars>>

InitEffect == EngineInit /\ AppInit

NextEffect ==
    \/ ChangeProjectKey
    \/ Unmount
    \/ Respond
    \/ Fail

SpecEffect == InitEffect /\ [][NextEffect]_vars

-----------------------------------------------------------------------------
(* The resolvers (src/src/resolvers/index.js): fetchSimulationData with
   getProjectTasks, saveAnalysis and loadAnalysis. A string that may be
   missing is JSNull or [v |-> the string]. *)

\* x || '' and !x for a string that may be missing
Falsy(x) == x = JSNull \/ x.v = ""

OrEmpty(x) == IF Falsy(x) THEN "" ELSE x.v

\* lines 12, 30, 102: req?.payload || {}, then the named field, undefined
\* (here JSNull) when the request, the payload or the field is missing
PayloadField(req, field) ==
    IF req = JSNull THEN JSNull
    ELSE IF req.payload = JSNull THEN JSNull
    ELSE req.payload[field]

\* issues of the tracker: with every field, with the fields empty, without
\* the fields object, and assigned without a due date
Issues ==
    { [key |-> "KAN-1",
       fields |-> [summary |-> [v |-> "Fix the login"],
                   assignee |-> [displayName |-> [v |-> "Ann"],
                                 accountId |-> [v |-> "user-123"]],
                   status |-> [name |-> [v |-> "To Do"], id |-> [v |-> "1"]],
                   duedate |-> [v |-> "2025-12-31"],
                   priority |-> [name |-> [v |-> "High"], id |-> [v |-> "2"]]]],
      [key |-> "KAN-2",
       fields |-> [summary |-> JSNull, assignee |-> JSNull, status |-> JSNull,
                   duedate |-> JSNull, priority |-> JSNull]],
      [key |-> "KAN-3", fields |-> JSNull],
      [key |-> "KAN-4",
       fields |-> [summary |-> [v |-> ""],
                   assignee |-> [displayName |-> JSNull, accountId |-> JSNull],
                   status |-> JSNull,
                   duedate |-> [v |-> ""],
                   priority |-> JSNull]] }

IssueLists ==
    {<<>>} \cup {<<i>> : i \in Issues} \cup {<<i, j>> : i, j \in Issues}

\* what the tracker does with the search: the request rejects, the body is
\* not JSON, the body is null, has no issues, has issues that are no array,
\* or has a list of issues
JiraBehaviours ==
    { [kind |-> "rejects"], [kind |-> "notJson"], [kind |-> "null"],
      [kind |-> "noIssues"], [kind |-> "issuesNotArray"] }
    \cup {[kind |-> "issues", issues |-> l] : l \in IssueLists}

\* lines 80-92: fields.x ? { name: ..., id: ... } : null
NamedOrNull(x, first, second) ==
    IF x = JSNull THEN JSNull
    ELSE [first |-> OrEmpty(x[first]), second |-> OrEmpty(x[second])]

\* lines 75-94: the task record of one issue
TaskOfIssue(issue) ==
    LET fields == IF issue.fields = JSNull
                  THEN [summary |-> JSNull, assignee |-> JSNull,
                        status |-> JSNull, duedate |-> JSNull,
                        priority |-> JSNull]
                  ELSE issue.fields
    IN  [key |-> issue.key,
         summary |-> OrEmpty(fields.summary),
         assignee |-> NamedOrNull(fields.assignee, "displayName", "accountId"),
         status |-> NamedOrNull(fields.status, "name", "id"),
         duedate |-> IF Falsy(fields.duedate) THEN JSNull ELSE fields.duedate,
         priority |-> NamedOrNull(fields.priority, "name", "id")]

\* lines 46-95: getProjectTasks; requested says whether the tracker was asked
getProjectTasks(projectKey, jira) ==
    IF Falsy(projectKey)
    THEN [kind |-> "return", value |-> <<>>, requested |-> FALSE]
    ELSE IF jira.kind \in {"rejects", "notJson"}
    THEN [kind |-> "throw", error |-> "Error", requested |-> TRUE]
    ELSE IF jira.kind \in {"null", "noIssues"}
    THEN [kind |-> "return", value |-> <<>>, requested |-> TRUE]
    ELSE IF jira.kind = "issuesNotArray"
    THEN [kind |-> "throw", error |-> "TypeError", requested |-> TRUE]
    ELSE [kind |-> "return",
          value |-> [i \in 1..Len(jira.issues) |->
                        TaskOfIssue(jira.issues[i])],
          requested |-> TRUE]

\* slip: no try/catch around getProjectTasks
fetchSimulationData_NoCatch(req, jira) ==
    getProjectTasks(PayloadField(req, "projectKey"), jira)

\* lines 100-108
fetchSimulationData(req, jira) ==
    LET r == getProjectTasks(PayloadField(req, "projectKey"), jira)
    IN  IF r.kind = "throw"
        THEN [kind |-> "return", value |-> <<>>, requested |-> r.requested]
        ELSE r

\* requests of fetchSimulationData and loadAnalysis
KeyRequests ==
    { JSNull, [payload |-> JSNull],
      [payload |-> [projectKey |-> JSNull]],
      [payload |-> [projectKey |-> [v |-> ""]]] }
    \cup {[payload |-> [projectKey |-> [v |-> pk]]] : pk \in ProjectKeys}

\* requests of saveAnalysis
SaveRequests ==
    { JSNull, [payload |-> JSNull] }
    \cup {[payload |-> [projectKey |-> pk, analysis |-> a, timestamp |-> t]] :
            pk \in {JSNull} \cup {[v |-> k] : k \in ProjectKeys},
            a \in {JSNull, [v |-> ""], [v |-> "low risk"], [v |-> "high risk"]},
            t \in {1767052800}}

InvokeFetchSimulationData ==
    \E req \in KeyRequests, jira \in JiraBehaviours :
        /\ resolverCall' =
               [name |-> "fetchSimulationData", req |-> req, jira |-> jira,
                result |-> fetchSimulationData(req, jira)]
        /\ UNCHANGED <<storage, lastSaved>>
        /\ UNCHANGED <<engineVars, callVars, dashVars, effectVars>>

\* lines 10-23; ok is whether storage.set succeeds
InvokeSaveAnalysis ==
    \E req \in SaveRequests, ok \in BOOLEAN :
        LET projectKey == PayloadField(req, "projectKey")
            analysis == PayloadField(req, "analysis")
            value == [analysis |-> analysis,
                      timestamp |-> PayloadField(req, "timestamp"),
                      projectKey |-> projectKey]
        IN  IF Falsy(projectKey) \/ Falsy(analysis)
            THEN /\ resolverCall' = [name |-> "saveAnalysis", req |-> req,
                                     ok |-> ok,
                                     result |-> [success |-> FALSE]]
                 /\ UNCHANGED <<storage, lastSaved>>
                 /\ UNCHANGED <<engineVars, callVars, dashVars, effectVars>>
            ELSE IF ok
            THEN /\ storage' =
                        [storage EXCEPT ![StorageKeyOf(projectKey.v)] = value]
                 /\ lastSaved' = [lastSaved EXCEPT ![projectKey.v] = value]
                 /\ resolverCall' = [name |-> "saveAnalysis", req |-> req,
                                     ok |-> ok,
                                     result |-> [success |-> TRUE]]
                 /\ UNCHANGED <<engineVars, callVars, dashVars, effectVars>>
            ELSE /\ resolverCall' = [name |-> "saveAnalysis", req |-> req,
                                     ok |-> ok,
                                     result |-> [success |-> FALSE,
                                                 error |-> "message"]]
                 /\ UNCHANGED <<storage, lastSaved>>
                 /\ UNCHANGED <<engineVars, callVars, dashVars, effectVars>>

\* lines 28-41; ok is whether storage.get succeeds
InvokeLoadAnalysis ==
    \E req \in KeyRequests, ok \in BOOLEAN :
        LET projectKey == PayloadField(req, "projectKey")
        IN  /\ resolverCall' =
                   [name |-> "loadAnalysis", req |-> req, ok |-> ok,
                    result |-> IF Falsy(projectKey) THEN JSNull
                               ELSE IF ~ok THEN JSNull
                               ELSE storage[StorageKeyOf(projectKey.v)]]
            /\ UNCHANGED <<storage, lastSaved>>
            /\ UNCHANGED <<engineVars, callVars, dashVars, effectVars>>

InitResolvers == EngineInit /\ AppInit

NextResolvers ==
    \/ InvokeFetchSimulationData
    \/ InvokeSaveAnalysis
    \/ InvokeLoadAnalysis

SpecResolvers == InitResolvers /\ [][NextResolvers]_vars

-----------------------------------------------------------------------------
(* Properties *)

Returned == out.kind = "return"

Invoked == out.kind # "none"

ArgsInRange ==
    InRange(args.load) /\ InRange(args.complexity) /\ InRange(args.absenceRisk)

\* day number of the calendar date a YYYY-MM-DD... string starts with
DayOfDateString(s) ==
    DaysFromCivil(NumVal(s, 1, 4), NumVal(s, 6, 7), NumVal(s, 9, 10))

\* the UTC date of the invocation, as a day number
TodayDay == UTCDay(out.local.clock)

IsWeekend(dayNumber) == Weekday(dayNumber) = 0 \/ Weekday(dayNumber) = 6

NothingToAdd ==
    /\ out.local.remainingDays = 0
    /\ out.local.complexityDays = 0
    /\ out.local.sicknessDays = 0
    /\ out.local.shockDays = 0

DueDatePresent == args.task.duedate # NoString

DueDateParsable == DueDatePresent /\ parseDate(args.task.duedate).valid

\* C1: the simulatedDate of every returned result is neither a Saturday nor
\* a Sunday.
C1_NeverWeekend ==
    Returned => ~IsWeekend(DayOfDateString(out.value.simulatedDate))

\* C2: when remainingDays, complexityDays, sicknessDays and shockDays are
\* all 0, simulatedDate is the date of today, whatever the weekday of today.
C2_ZeroDaysStaysToday ==
    (Returned /\ NothingToAdd)
        => DayOfDateString(out.value.simulatedDate) = TodayDay

\* an overdue item with nothing to add, invoked on a Saturday or Sunday
C2_Witness ==
    /\ Returned
    /\ NothingToAdd
    /\ out.value.isOverdue = "true"
    /\ IsWeekend(TodayDay)
    /\ IsWeekend(DayOfDateString(out.value.simulatedDate))

\* C3: with the three drivers in [0, 100], riskDays is a non-negative
\* integer, the due date being before, on or after today, or absent.
C3_RiskDaysNonNegative ==
    (Returned /\ ArgsInRange) => out.value.riskDays \in Nat

\* an overdue item under a positive load, sick and shocked
C3_Witness ==
    /\ Returned
    /\ ArgsInRange
    /\ out.value.isOverdue = "true"
    /\ args.load > 0
    /\ out.value.isSick
    /\ out.value.riskDays > 0

\* C4: the simulatedDate of every returned result is on or after the date of
\* the invocation.
C4_NotBeforeToday ==
    Returned => DayOfDateString(out.value.simulatedDate) >= TodayDay

\* a result for an item whose due date is in the past
C4_Witness ==
    /\ Returned
    /\ DueDateParsable
    /\ DayOfDateString(args.task.duedate) < TodayDay
    /\ out.local.daysToAdd > 0

\* C5: an invocation that repeats the arguments of the previous one, with a
\* seed passed and on the same UTC date, returns an equal result.
C5_Deterministic ==
    [][(/\ args' = args
        /\ args.randomSeed.given
        /\ out.kind = "return"
        /\ out'.kind = "return"
        /\ out'.local.today = out.local.today)
            => out'.value = out.value]_vars

\* a result returned with a passed seed at an instant that is not the first
\* of its UTC date: the clock moves only when the arguments are repeated
C5_Witness ==
    /\ Returned
    /\ args.randomSeed.given
    /\ out.local.clock # out.local.today
    /\ out.value.riskDays > 0

\* C6: the result depends on the explicit arguments only: an invocation that
\* repeats the arguments of the previous one returns an equal result, at
\* whatever date it is made and also when the seed is omitted.
C6_FunctionOfArguments ==
    [][(/\ args' = args
        /\ out.kind = "return"
        /\ out'.kind = "return")
            => out'.value = out.value]_vars

\* C7: an invocation with a driver outside [0, 100] fails with a
\* ValidationError and returns no result.
C7_RejectsOutOfRange ==
    (Invoked /\ ~ArgsInRange)
        => (out.kind = "throw" /\ out.error = "ValidationError")

\* C8: an invocation with a due date that is present and unparsable fails
\* with a ValidationError, and with no other kind of error.
C8_RejectsMalformedDate ==
    (Invoked /\ DueDatePresent /\ ~DueDateParsable)
        => (out.kind = "throw" /\ out.error = "ValidationError")

\* C9: a due date strictly before today gives isOverdue true, remainingDays 0
\* and a walk of the business days that starts from today; a due date on or
\* after today gives isOverdue false.
C9_Overdue ==
    (Returned /\ DueDateParsable) =>
        IF DayOfDateString(args.task.duedate) < TodayDay
        THEN /\ out.value.isOverdue = "true"
             /\ out.local.remainingDays = 0
             /\ out.local.simulatedDateObj =
                    addBusinessDays(TodayDay * MinutesPerDay,
                                    out.local.daysToAdd, tzOffset)
        ELSE out.value.isOverdue = "false"

\* an overdue item whose walk moved, and whose due date is not today
C9_Witness ==
    /\ Returned
    /\ DueDateParsable
    /\ DayOfDateString(args.task.duedate) < TodayDay
    /\ out.value.isOverdue = "true"
    /\ out.local.daysToAdd > 0

\* C10: an invocation that only raises cognitiveLoad within [0, 100], at the
\* same instant and with a passed seed, does not decrease simulatedDays nor
\* riskDays.
C10_MonotoneInLoad ==
    [][(/\ args' = [args EXCEPT !.load = args'.load]
        /\ now' = now
        /\ args.randomSeed.given
        /\ 0 <= args.load /\ args.load <= args'.load /\ args'.load <= 100
        /\ out.kind = "return"
        /\ out'.kind = "return")
            => /\ out'.local.simulatedDays100 >= out.local.simulatedDays100
               /\ out'.value.riskDays >= out.value.riskDays]_vars

\* a result under a raised load that made the duration longer: the load is 0
\* at first and changes only by an invocation
C10_Witness ==
    /\ Returned
    /\ ArgsInRange
    /\ args.randomSeed.given
    /\ args.load > 0
    /\ out.local.remainingDays > 0
    /\ out.local.simulatedDays100 >
           100 * (out.local.remainingDays + out.local.complexityDays
                  + out.local.sicknessDays + out.local.shockDays)

\* the least integer k with k >= x100 / 100
CeilOfHundredths(x100) ==
    CHOOSE k \in -50..50 : 100 * k >= x100 /\ 100 * (k - 1) < x100

\* number of days that are neither Saturday nor Sunday in (from, to]
BusinessDaysBetween(from, to) ==
    Cardinality({d \in (from + 1)..to : ~IsWeekend(d)})

AllDriversZero ==
    args.load = 0 /\ args.complexity = 0 /\ args.absenceRisk = 0

\* C11: for a due date after today, with the three drivers 0 and no shock,
\* simulatedDate is the due date, riskDays is 0 and isSick is false.
C11_BaseCase ==
    (/\ Returned
     /\ DueDateParsable
     /\ DayOfDateString(args.task.duedate) > TodayDay
     /\ AllDriversZero
     /\ ~out.value.isShocked)
        => /\ DayOfDateString(out.value.simulatedDate)
                  = DayOfDateString(args.task.duedate)
           /\ out.value.riskDays = 0
           /\ ~out.value.isSick

\* C12: when N > 0 days are added, exactly N days that are neither Saturday
\* nor Sunday lie after today up to and including simulatedDate, and
\* simulatedDate is neither a Saturday nor a Sunday.
C12_NthBusinessDay ==
    (Returned /\ out.local.daysToAdd > 0)
        => /\ BusinessDaysBetween(TodayDay,
                                  DayOfDateString(out.value.simulatedDate))
                  = out.local.daysToAdd
           /\ ~IsWeekend(DayOfDateString(out.value.simulatedDate))

\* C13: with the drivers in [0, 100], complexityDays is the least integer
\* not below systemComplexity / 100 * 5 and lies in 0..5, simulatedDays is
\* remainingDays * (1 + cognitiveLoad / 100) + complexityDays + sicknessDays
\* + shockDays, and riskDays is the least integer not below
\* simulatedDays - remainingDays.
C13_DurationFormula ==
    (Returned /\ ArgsInRange) =>
        LET cd == CeilOfHundredths(5 * args.complexity)
            sick == IF out.value.isSick THEN 3 ELSE 0
            shock == IF out.value.isShocked THEN 3 ELSE 0
            rem == out.local.remainingDays
        IN  /\ cd \in 0..5
            /\ out.local.complexityDays = cd
            /\ out.local.simulatedDays100
                   = rem * (100 + args.load) + 100 * (cd + sick + shock)
            /\ out.value.riskDays
                   = CeilOfHundredths(out.local.simulatedDays100 - 100 * rem)

\* a fractional duration: half of the complexity range rounds up to 3 days,
\* and the load stretches the remaining days by a fraction
C13_Witness ==
    /\ Returned
    /\ ArgsInRange
    /\ args.complexity = 50
    /\ out.local.complexityDays = 3
    /\ out.local.remainingDays > 0
    /\ out.local.simulatedDays100 % 100 # 0
    /\ out.value.isSick

\* C14: remainingDays is the number of calendar days from today to the due
\* date, or 0 when that number is negative or there is no due date.
C14_RemainingDays ==
    Returned =>
        /\ out.local.remainingDays >= 0
        /\ out.local.remainingDays =
               IF DueDatePresent
               THEN Max(0, DayOfDateString(args.task.duedate) - TodayDay)
               ELSE 0

\* an item due today
C14_Witness ==
    /\ Returned
    /\ DueDateParsable
    /\ DayOfDateString(args.task.duedate) = TodayDay
    /\ out.local.remainingDays = 0
    /\ out.value.isOverdue = "false"

\* C15: riskLevel is High exactly when riskDays >= 15, Medium exactly when
\* 5 <= riskDays < 15 and Low exactly when riskDays < 5.
C15_RiskLevel ==
    Returned =>
        /\ out.value.riskLevel \in {"Low", "Medium", "High"}
        /\ out.value.riskLevel = "High" <=> out.value.riskDays >= 15
        /\ out.value.riskLevel = "Medium"
               <=> (5 <= out.value.riskDays /\ out.value.riskDays < 15)
        /\ out.value.riskLevel = "Low" <=> out.value.riskDays < 5

\* the lowest number of risk days that is High
C15_Witness ==
    /\ Returned
    /\ out.value.riskDays = 15
    /\ out.value.riskLevel = "High"

C17_Sickness ==
    /\ [](Returned =>
            /\ args.randomSeed.given
                   => (out.value.isSick
                           <=> args.randomSeed.v < args.absenceRisk)
            /\ out.local.sicknessDays = (IF out.value.isSick THEN 3 ELSE 0)
            /\ args.absenceRisk = 0 => ~out.value.isSick
            /\ args.absenceRisk = 100 => out.value.isSick)
    /\ [][(/\ args' = [args EXCEPT !.absenceRisk = args'.absenceRisk]
           /\ now' = now
           /\ args.randomSeed.given
           /\ args.absenceRisk <= args'.absenceRisk
           /\ out.kind = "return"
           /\ out'.kind = "return"
           /\ out.value.isSick)
               => out'.value.isSick]_vars

\* the seed 0.5 under an absence risk of exactly 50: not sick
C17_Witness ==
    /\ Returned
    /\ args.randomSeed.given
    /\ args.randomSeed.v = args.absenceRisk
    /\ args.absenceRisk > 0
    /\ ~out.value.isSick

\* C18: isShocked is true, and the shock adds 3 days, exactly when a
\* directive is supplied, the item has an assignee, the assignee is among the
\* members of the directive and its action is the 3-day block; otherwise
\* isShocked is false and nothing is added. Shock and absence add up: when
\* both fire, the duration grows by 6 days.
C18_Shock ==
    Returned =>
        LET d == args.tangibleShock
            a == args.task.assignee
            applies ==
                /\ d # JSNull
                /\ a # JSNull
                /\ a.accountId \in {d.memberIds[i] : i \in 1..Len(d.memberIds)}
                /\ d.action = "sick3"
            base == out.local.remainingDays * (100 + args.load)
                        + 100 * out.local.complexityDays
        IN  /\ out.value.isShocked <=> applies
            /\ out.local.shockDays = (IF applies THEN 3 ELSE 0)
            /\ out.local.simulatedDays100 =
                   base + (IF out.value.isSick THEN 300 ELSE 0)
                        + (IF applies THEN 300 ELSE 0)
            /\ (applies /\ out.value.isSick)
                   => out.local.simulatedDays100 = base + 600

\* shock and absence fire together
C18_Witness ==
    /\ Returned
    /\ out.value.isShocked
    /\ out.value.isSick
    /\ out.local.shockDays = 3
    /\ out.local.sicknessDays = 3

\* C19: without a due date remainingDays is 0, originalDate is null,
\* isOverdue is the boolean false and delayDays equals riskDays; with the
\* three drivers 0 and no shock both are 0.
C19_NoDueDate ==
    (Returned /\ ~DueDatePresent)
        => /\ out.local.remainingDays = 0
           /\ out.value.originalDate = NoString
           /\ out.value.isOverdue = "false"
           /\ out.value.delayDays = out.value.riskDays
           /\ (AllDriversZero /\ ~out.value.isShocked)
                  => (out.value.delayDays = 0 /\ out.value.riskDays = 0)

\* C20: the variant that anchors at today never returns a simulatedDate
\* before today, on inputs and hosts for which the variant that anchors at
\* the due date unless overdue does return one.
C20_OnlyTodayAnchored ==
    (out.kind = "both" /\ out.current.kind = "return")
        => DayOfDateString(out.current.value.simulatedDate)
               >= UTCDay(out.current.local.clock)

\* the older variant returns a date before today, as the UTC date and as the
\* date on the host, where the variant that anchors at today returns today
C20_Witness ==
    /\ out.kind = "both"
    /\ out.current.kind = "return"
    /\ out.part_001.kind = "return"
    /\ DayOfDateString(out.part_001.value.simulatedDate) < UTCDay(now)
    /\ DayOfDateString(out.part_001.value.simulatedDate)
           < LocalDay(now, tzOffset)
    /\ DayOfDateString(out.current.value.simulatedDate) = UTCDay(now)

\* C21: invocations interleaved in any order each return the result of the
\* invocation run alone, and the task records and the shock directive with
\* its member list are never modified.
C21_NoSharedState ==
    /\ heap.task = TaskObjects
    /\ heap.shock = ShockObjects
    /\ \A f \in FrameIds :
          frames[f].pc = "returned" =>
              LET a == frames[f].a
              IN  frames[f].result =
                      calculateSimulation(TaskObjects[a.task], a.load,
                          a.complexity, a.absenceRisk, a.randomSeed100,
                          ShockOf([shock |-> ShockObjects], a),
                          now, tzOffset).value

\* two invocations for different items that were in progress at once and
\* have both returned
C21_Witness ==
    /\ \A f \in FrameIds :
          frames[f].pc = "returned" /\ frames[f].overlapped
    /\ frames[1].a.task # frames[2].a.task
    /\ frames[1].result # frames[2].result

\* C22: across slider changes and re-renders the seed passed for an item
\* does not change and lies in [0, 1), and while absenceRisk stays the same
\* isSick of the item stays the same.
C22_StableSeed ==
    /\ [](Invoked => (args.randomSeed.given
                        /\ args.randomSeed.v \in 0..99))
    /\ [][(out.kind = "return" /\ out'.kind = "return"
             /\ args'.task.key = args.task.key)
              => /\ args'.randomSeed = args.randomSeed
                 /\ args'.absenceRisk = args.absenceRisk
                        => out'.value.isSick = out.value.isSick]_vars

\* an item that is sick under the sliders at 100, 100 for load and
\* complexity, after renders that moved them
C22_Witness ==
    /\ Returned
    /\ args.load = 100
    /\ args.complexity = 100
    /\ args.absenceRisk = 100
    /\ args.randomSeed.v = 99
    /\ out.value.isSick

\* C23: the result is the one computed on a host whose local time is UTC,
\* whatever the offset of the host.
C23_TimeZoneIndependent ==
    (Returned /\ args.randomSeed.given)
        => out.value =
               calculateSimulation(args.task, args.load, args.complexity,
                                   args.absenceRisk, args.randomSeed.v,
                                   args.tangibleShock, out.local.clock,
                                   0).value

\* C24: with the drivers in [0, 100], the number of working days walked from
\* today, ceil(simulatedDays), is remainingDays + riskDays.
C24_DaysWalked ==
    (Returned /\ ArgsInRange)
        => /\ out.local.daysToAdd
                  = CeilOfHundredths(out.local.simulatedDays100)
           /\ out.local.daysToAdd
                  = out.local.remainingDays + out.value.riskDays

\* a fractional duration over several remaining days
C24_Witness ==
    /\ Returned
    /\ ArgsInRange
    /\ out.local.remainingDays > 1
    /\ out.value.riskDays > 0
    /\ out.local.simulatedDays100 % 100 # 0

Pending(i) == i <= Len(calls) /\ calls[i].state = "pending"

NonePending == \A i \in 1..Len(calls) : calls[i].state # "pending"

\* a step in which the promise of call i settles
Settles(i) == Pending(i) /\ calls'[i].state # "pending"

\* C25: a call of refreshSimulationData that starts a fetch sets status to
\* running; its promise settles, and when it does status becomes complete
\* and hasFetchedSimulationData true; status is not running when no fetch is
\* in flight; a step that neither starts nor settles a fetch leaves the
\* useState values as they are.
C25_RefreshCompletes ==
    /\ [](NonePending => dashboard.status # "running")
    /\ \A i \in 1..MaxCalls :
          Pending(i) ~> (i <= Len(calls) /\ calls[i].state # "pending")
    /\ [][/\ Len(calls') > Len(calls) => dashboard'.status = "running"
          /\ \A i \in 1..MaxCalls :
                Settles(i) => /\ dashboard'.status = "complete"
                              /\ dashboard'.hasFetchedSimulationData
          /\ calls' = calls => dashboard' = dashboard]_vars

\* every fetch has settled, one by resolving and one by rejecting, and a
\* context without project key has arrived since
C25_Witness ==
    /\ Len(calls) = MaxCalls
    /\ NonePending
    /\ \E i \in 1..Len(calls) : calls[i].state = "resolved"
    /\ \E i \in 1..Len(calls) : calls[i].state = "rejected"
    /\ productContext # JSNull
    /\ ProjectKeyOf(productContext) = ""
    /\ dashboard.status = "complete"
    /\ dashboard.hasFetchedSimulationData

\* C26: while some call is in flight status is running, and once all calls
\* have settled simulationTasks, totalIssueCount and overdueCount are those
\* of the response of the call issued last.
C26_LastIssuedWins ==
    /\ (\E i \in 1..Len(calls) : calls[i].state = "pending")
           => dashboard.status = "running"
    /\ (Len(calls) > 0 /\ NonePending
            /\ calls[Len(calls)].state = "resolved")
           => LET tasks == TasksOf(calls[Len(calls)].result)
              IN  /\ dashboard.simulationTasks = tasks
                  /\ dashboard.totalIssueCount = Len(tasks)
                  /\ dashboard.overdueCount
                         = OverdueCountOf(tasks, now, tzOffset)

\* C27: when a fetch settles, hasPermissionError becomes true exactly when
\* the fetch failed with status 403, and simulationTasks is empty after a
\* failed fetch.
C27_PermissionError ==
    [][\A i \in 1..MaxCalls :
          Settles(i) =>
              /\ dashboard'.hasPermissionError
                     <=> (/\ calls'[i].state = "rejected"
                          /\ calls'[i].statusCode = 403)
              /\ calls'[i].state = "rejected"
                     => dashboard'.simulationTasks = <<>>]_vars

\* C28: a response that arrives after the cleanup of its run changes
\* neither count, and on the mounted page the counts are the initial ones or
\* those of a request issued for the current project key.
C28_CountsOfCurrentProject ==
    /\ [][\A i \in 1..MaxEffects :
             (/\ i <= Len(effects)
              /\ effects[i].isCancelled
              /\ effects[i].state = "pending"
              /\ effects'[i].state # "pending")
                 => counts' = counts]_vars
    /\ [](page.mounted => counts.from \in {"", page.projectKey})

Fetched == resolverCall.name = "fetchSimulationData"

\* C29: fetchSimulationData returns, and returns a list: the empty list
\* without asking the tracker when projectKey is missing, the empty list
\* when the request fails or the response has no list of issues, and
\* otherwise one task record per issue, in the order of the issues, with
\* duedate and assignee null for an issue that has none.
C29_AlwaysAList ==
    Fetched =>
        LET r == resolverCall.result
            jira == resolverCall.jira
        IN  /\ r.kind = "return"
            /\ DOMAIN r.value = 1..Len(r.value)
            /\ Falsy(PayloadField(resolverCall.req, "projectKey"))
                   => (r.value = <<>> /\ ~r.requested)
            /\ jira.kind # "issues" => r.value = <<>>
            /\ (r.requested /\ jira.kind = "issues")
                   => /\ Len(r.value) = Len(jira.issues)
                      /\ \A i \in 1..Len(jira.issues) :
                            LET issue == jira.issues[i]
                                fields == issue.fields
                            IN  /\ r.value[i].key = issue.key
                                /\ (fields = JSNull \/ Falsy(fields.duedate))
                                       <=> r.value[i].duedate = JSNull
                                /\ (fields = JSNull \/ fields.assignee = JSNull)
                                       <=> r.value[i].assignee = JSNull
                                /\ r.value[i].duedate # JSNull
                                       => r.value[i].duedate = fields.duedate

\* two issues, the second without assignee and due date
C29_Witness ==
    /\ Fetched
    /\ resolverCall.jira.kind = "issues"
    /\ Len(resolverCall.result.value) = 2
    /\ resolverCall.result.value[1].key = "KAN-1"
    /\ resolverCall.result.value[1].duedate # JSNull
    /\ resolverCall.result.value[2].key = "KAN-2"
    /\ resolverCall.result.value[2].duedate = JSNull
    /\ resolverCall.result.value[2].assignee = JSNull

Loaded ==
    /\ resolverCall.name = "loadAnalysis"
    /\ ~Falsy(PayloadField(resolverCall.req, "projectKey"))

Saves == resolverCall'.name = "saveAnalysis"

\* a save leaves the entries of the other projects alone, and a save with a
\* missing projectKey or analysis returns {success: false} and leaves the
\* storage alone
SaveIsPerProject ==
    Saves =>
        LET projectKey == PayloadField(resolverCall'.req, "projectKey")
            analysis == PayloadField(resolverCall'.req, "analysis")
        IN  /\ \A pk \in ProjectKeys :
                  (Falsy(projectKey) \/ projectKey.v # pk)
                      => storage'[StorageKeyOf(pk)] = storage[StorageKeyOf(pk)]
            /\ (Falsy(projectKey) \/ Falsy(analysis))
                   => /\ resolverCall'.result = [success |-> FALSE]
                      /\ storage' = storage

\* C30: loadAnalysis(projectKey) returns the record {analysis, timestamp,
\* projectKey} of the last saveAnalysis for projectKey that succeeded, or
\* null if there was none; a save for a project changes nothing for another
\* project; a save with a missing projectKey or analysis returns
\* {success: false} and leaves the storage unchanged.
C30_PerProjectPersistence ==
    /\ [](Loaded => resolverCall.result
                        = lastSaved[PayloadField(resolverCall.req,
                                                 "projectKey").v])
    /\ [][SaveIsPerProject]_vars

\* C30 as it holds: loadAnalysis(projectKey) returns the record of the last
\* saveAnalysis for projectKey that succeeded, or null if there was none or
\* if reading the storage fails.
C30_PersistenceUnlessReadFails ==
    /\ [](Loaded => resolverCall.result
                        = IF resolverCall.ok
                          THEN lastSaved[PayloadField(resolverCall.req,
                                                      "projectKey").v]
                          ELSE JSNull)
    /\ [](resolverCall.name = "loadAnalysis" /\ ~Loaded
              => resolverCall.result = JSNull)
    /\ [][SaveIsPerProject]_vars

\* a load for one project returns its record, with the analysis, the
\* timestamp and the project key, after a save for the other project
C30_Witness ==
    /\ Loaded
    /\ resolverCall.ok
    /\ PayloadField(resolverCall.req, "projectKey").v = "KAN"
    /\ resolverCall.result # JSNull
    /\ resolverCall.result.projectKey = [v |-> "KAN"]
    /\ resolverCall.result.analysis = [v |-> "low risk"]
    /\ resolverCall.result.timestamp = 1767052800
    /\ lastSaved["OPS"] # JSNull
    /\ lastSaved["OPS"].analysis = [v |-> "high risk"]

====
